---- MODULE Spec2Model ----
(***************************************************************************)
(* A model of goq, the declarative HTML unmarshaler (unmarshal.go and its  *)
(* helper indirect).  Go strings are sequences of one-character strings,   *)
(* so that strings.Split, strings.Join, indexing and slicing are computed. *)
(* A Go run-time panic is an explicit outcome of every operation.          *)
(***************************************************************************)
EXTENDS Integers, Sequences, FiniteSets, TLC

VARIABLES op, in, out, vfMut, vfCache, pc, ptag, pfn, nclo, ncalls

vars == <<op, in, out, vfMut, vfCache, pc, ptag, pfn, nclo, ncalls>>
seqVars == <<op, in, out>>
concVars == <<vfMut, vfCache, pc, ptag, pfn, nclo, ncalls>>

(***************************************************************************)
(* Bounds of the model.                                                    *)
(***************************************************************************)
MaxArr == 2
MaxWhich == 2
NumProcs == 2
MaxSels == 32
MaxCalls == 2

(***************************************************************************)
(* Strings.                                                                *)
(***************************************************************************)
prePfx == "!"

RECURSIVE SplitFrom(_, _, _)
SplitFrom(str, i, cur) ==
    IF i > Len(str) THEN <<cur>>
    ELSE IF str[i] = "," THEN <<cur>> \o SplitFrom(str, i + 1, <<>>)
    ELSE SplitFrom(str, i + 1, Append(cur, str[i]))

\* strings.Split(str, ",")
Split(str) == SplitFrom(str, 1, <<>>)

RECURSIVE Join(_)
\* strings.Join(arr, ",")
Join(arr) ==
    IF Len(arr) = 0 THEN <<>>
    ELSE IF Len(arr) = 1 THEN arr[1]
    ELSE arr[1] \o <<",">> \o Join(Tail(arr))

RECURSIVE TrimLeft(_)
TrimLeft(str) ==
    IF Len(str) > 0 /\ str[1] = " " THEN TrimLeft(Tail(str)) ELSE str

RECURSIVE TrimRight(_)
TrimRight(str) ==
    IF Len(str) > 0 /\ str[Len(str)] = " "
    THEN TrimRight(SubSeq(str, 1, Len(str) - 1)) ELSE str

\* strings.TrimSpace
TrimSpace(str) == TrimRight(TrimLeft(str))

RECURSIVE Flatten(_)
Flatten(ss) == IF Len(ss) = 0 THEN <<>> ELSE ss[1] \o Flatten(Tail(ss))

RECURSIVE Uniq(_)
\* a node list without its repeated nodes, first occurrences kept
Uniq(s) ==
    IF Len(s) = 0 THEN <<>>
    ELSE LET r == Uniq(SubSeq(s, 1, Len(s) - 1)) IN
         IF \E i \in 1..Len(r) : r[i] = s[Len(s)] THEN r ELSE Append(r, s[Len(s)])

Range(s) == {s[i] : i \in 1..Len(s)}

(***************************************************************************)
(* Documents.  A document is a finite tree of element nodes numbered in    *)
(* document order (preorder); node 1 is the root element.  Every node has  *)
(* a tag name, a list of attributes and its own text.                      *)
(***************************************************************************)
sA == <<"a">>
sB == <<"b">>
sD == <<"d">>
sK == <<"k">>
sV == <<"v">>
sW == <<"w">>
sR == <<"r">>
sLi == <<"l", "i">>
aK == <<"[", "k", "]">>
aV == <<"[", "v", "]">>
aBang == <<"[", "b", "a", "n", "g", "]">>
aHref == <<"[", "h", "r", "e", "f", "]">>
kHtml == <<"h", "t", "m", "l">>
kText == <<"t", "e", "x", "t">>
dParent == <<"!", "P", "a", "r", "e", "n", "t">>
dChildren == <<"!", "C", "h", "i", "l", "d", "r", "e", "n">>
dSiblings == <<"!", "S", "i", "b", "l", "i", "n", "g", "s">>
dLength == <<"!", "L", "e", "n", "g", "t", "h">>
dBogus == <<"!", "N", "o", "p", "e">>
ignoreTag == <<"!", "i", "g", "n", "o", "r", "e">>

\* <r><d><k k="x">1<v v="p">5</v></k><v v="q" bang="s">6</v>
\*       <k k="y" bang="t"> 2 <w><k k="z">3</k></w></k></d></r>
DocMap ==
    [parent |-> <<0, 1, 2, 3, 2, 2, 6, 7>>,
     name   |-> <<sR, sD, sK, sV, sV, sK, sW, sK>>,
     attrs  |-> << <<>>, <<>>, << <<(<<"k">>), (<<"x">>)>> >>,
                   << <<(<<"v">>), (<<"p">>)>> >>,
                   << <<(<<"v">>), (<<"q">>)>>,
                      <<(<<"b", "a", "n", "g">>), (<<"s">>)>> >>,
                   << <<(<<"k">>), (<<"y">>)>>,
                      <<(<<"b", "a", "n", "g">>), (<<"t">>)>> >>,
                   <<>>,
                   << <<(<<"k">>), (<<"z">>)>> >> >>,
     text   |-> << <<>>, <<>>, <<"1">>, <<"5">>, <<"6">>,
                   <<" ", "2", " ">>, <<>>, <<"3">> >>]

\* <r><li><k k="m">7</k><k k="n" v=" u">8</k></li><li><b><k k="o">x</k></b></li>
\*    <li>9</li><a href="h"> 4</a><a>5</a><a>6</a><a>7</a></r>
DocList ==
    [parent |-> <<0, 1, 2, 2, 1, 5, 6, 1, 1, 1, 1, 1>>,
     name   |-> <<sR, sLi, sK, sK, sLi, sB, sK, sLi, sA, sA, sA, sA>>,
     attrs  |-> << <<>>, <<>>, << <<(<<"k">>), (<<"m">>)>> >>,
                   << <<(<<"k">>), (<<"n">>)>>, <<(<<"v">>), (<<" ", "u">>)>> >>,
                   <<>>, <<>>, << <<(<<"k">>), (<<"o">>)>> >>, <<>>,
                   << <<(<<"h", "r", "e", "f">>), (<<"h">>)>> >>,
                   <<>>, <<>>, <<>> >>,
     text   |-> << <<>>, <<>>, <<"7">>, <<"8">>, <<>>, <<>>, <<"x">>, <<"9">>,
                   <<" ", "4">>, <<"5">>, <<"6">>, <<"7">> >>]

Docs == <<DocMap, DocList>>

NodeIds(d) == [i \in 1..Len(d.parent) |-> i]

\* the element children of node n, in document order
Kids(d, n) == SelectSeq(NodeIds(d), LAMBDA m : d.parent[m] = n)

RECURSIVE IsDesc(_, _, _)
\* n is a strict descendant of a
IsDesc(d, n, a) ==
    /\ d.parent[n] # 0
    /\ (d.parent[n] = a \/ IsDesc(d, d.parent[n], a))

InSubtree(d, n, a) == n = a \/ IsDesc(d, n, a)

AttrIdx(d, n, a) == {i \in 1..Len(d.attrs[n]) : d.attrs[n][i][1] = a}
HasAttr(d, n, a) == AttrIdx(d, n, a) # {}
AttrOf(d, n, a) ==
    LET ix == AttrIdx(d, n, a) IN
    d.attrs[n][CHOOSE i \in ix : \A j \in ix : i <= j][2]

\* the selector matcher of the provider: a tag name or [attr]; a string that
\* is no selector of these two forms (the empty string included) matches nothing
Matches(d, n, q) ==
    \/ q = d.name[n]
    \/ /\ Len(q) >= 3
       /\ q[1] = "["
       /\ q[Len(q)] = "]"
       /\ HasAttr(d, n, SubSeq(q, 2, Len(q) - 1))

\* Selection.Children()
Children(d, s) == Uniq(Flatten([i \in 1..Len(s) |-> Kids(d, s[i])]))

\* Selection.Parent(): element parents only
Parent(d, s) ==
    Uniq(Flatten([i \in 1..Len(s) |->
        IF d.parent[s[i]] = 0 THEN <<>> ELSE <<d.parent[s[i]]>>]))

\* Selection.Siblings(): the other element children of each node's parent
Siblings(d, s) ==
    Uniq(Flatten([i \in 1..Len(s) |->
        SelectSeq(Kids(d, d.parent[s[i]]), LAMBDA m : m # s[i])]))

\* Selection.Find(q)
Find(d, s, q) ==
    Uniq(Flatten([i \in 1..Len(s) |->
        SelectSeq(NodeIds(d), LAMBDA m : IsDesc(d, m, s[i]) /\ Matches(d, m, q))]))

\* Selection.Filter(q)
Filter(d, s, q) == SelectSeq(s, LAMBDA m : Matches(d, m, q))

\* Selection.Eq(i), i >= 0
Eq(s, i) == IF i < Len(s) THEN <<s[i + 1]>> ELSE <<>>

RECURSIVE NodeText(_, _)
NodeText(d, n) ==
    LET ks == Kids(d, n) IN
    d.text[n] \o Flatten([i \in 1..Len(ks) |-> NodeText(d, ks[i])])

\* Selection.Text()
Text(d, s) == Flatten([i \in 1..Len(s) |-> NodeText(d, s[i])])

\* Selection.Attr(a): the attribute of the first node, "" when there is none
Attr(d, s, a) ==
    IF Len(s) > 0 /\ HasAttr(d, s[1], a) THEN AttrOf(d, s[1], a) ELSE <<>>

AttrMarkup(d, n) ==
    Flatten([i \in 1..Len(d.attrs[n]) |->
        <<" ">> \o d.attrs[n][i][1] \o <<"=", "'">> \o d.attrs[n][i][2] \o <<"'">>])

RECURSIVE InnerMarkup(_, _)
InnerMarkup(d, n) ==
    LET ks == Kids(d, n) IN
    d.text[n] \o Flatten([i \in 1..Len(ks) |->
        <<"<">> \o d.name[ks[i]] \o AttrMarkup(d, ks[i]) \o <<">">>
        \o InnerMarkup(d, ks[i])
        \o <<"<", "/">> \o d.name[ks[i]] \o <<">">>])

\* Selection.Html(): the inner markup of the first node, "" when there is none
Html(d, s) == IF Len(s) > 0 THEN InnerMarkup(d, s[1]) ELSE <<>>

(***************************************************************************)
(* goqueryTag: the annotation of a field.                                  *)
(***************************************************************************)

\* reflect.ValueOf(s).MethodByName(meth) and v.Call(nil), for the methods of
\* *goquery.Selection used here: three that return a selection, one that
\* returns an int; every other name is no method
MethodByName(d, meth, s) ==
    IF meth = Tail(dParent) THEN [valid |-> TRUE, s |-> Parent(d, s)]
    ELSE IF meth = Tail(dSiblings) THEN [valid |-> TRUE, s |-> Siblings(d, s)]
    ELSE IF meth = Tail(dChildren) THEN [valid |-> TRUE, s |-> Children(d, s)]
    ELSE IF meth = Tail(dLength) THEN [valid |-> TRUE, s |-> s]
    ELSE [valid |-> FALSE, s |-> s]

RECURSIVE preprocessFrom(_, _, _, _)
\* the loop of preprocess, offset counted from 0 as in the source
preprocessFrom(d, arr, offset, s) ==
    IF ~(Len(arr) - 1 > offset) THEN [panic |-> FALSE, s |-> s]
    ELSE IF Len(arr[offset + 1]) = 0 THEN [panic |-> TRUE, s |-> s]
    ELSE IF arr[offset + 1][1] # prePfx THEN [panic |-> FALSE, s |-> s]
    ELSE LET m == MethodByName(d, Tail(arr[offset + 1]), s) IN
         IF ~m.valid THEN [panic |-> FALSE, s |-> s]
         ELSE preprocessFrom(d, arr, offset + 1, m.s)

preprocess(d, tag, s) == preprocessFrom(d, Split(tag), 0, s)

RECURSIVE selectorOffset(_, _)
\* the loop of selector: the offset it ends with, or -1 when indexing the
\* first byte of an empty token panics
selectorOffset(arr, offset) ==
    IF ~(Len(arr) > offset) THEN offset
    ELSE IF Len(arr[offset + 1]) = 0 THEN -1
    ELSE IF arr[offset + 1][1] = prePfx THEN selectorOffset(arr, offset + 1)
    ELSE offset

selector(tag, which) ==
    LET arr == Split(tag) IN
    IF which > Len(arr) - 1 THEN [panic |-> FALSE, v |-> <<>>]
    ELSE LET offset == selectorOffset(arr, 0) IN
         IF offset < 0 \/ which + offset > Len(arr) - 1
         THEN [panic |-> TRUE, v |-> <<>>]
         ELSE [panic |-> FALSE, v |-> arr[which + offset + 1]]

textVal == [kind |-> "text", attr |-> <<>>]
htmlVal == [kind |-> "html", attr |-> <<>>]
attrFunc(attr) == [kind |-> "attr", attr |-> attr]

\* the value-function valFunc resolves for tag when the cache has no entry
\* (a cached entry is the function resolved here by an earlier call)
valFunc(tag) ==
    LET srcArr == Split(tag) IN
    IF Len(srcArr) < 2 THEN [panic |-> FALSE, f |-> textVal]
    ELSE LET src == srcArr[2] IN
         IF Len(src) = 0 THEN [panic |-> TRUE, f |-> textVal]
         ELSE IF src[1] = "["
         THEN IF 1 > Len(src) - 1 THEN [panic |-> TRUE, f |-> textVal]
              ELSE [panic |-> FALSE, f |-> attrFunc(SubSeq(src, 2, Len(src) - 1))]
         ELSE IF src = kHtml THEN [panic |-> FALSE, f |-> htmlVal]
         ELSE IF src = kText THEN [panic |-> FALSE, f |-> textVal]
         ELSE [panic |-> FALSE, f |-> textVal]

\* the call vf(s) of a value-function
applyVal(d, f, s) ==
    IF f.kind = "attr" THEN Attr(d, s, f.attr)
    ELSE IF f.kind = "html" THEN TrimSpace(Html(d, s))
    ELSE TrimSpace(Text(d, s))

popVal(tag) ==
    LET arr == Split(tag) IN
    IF Len(arr) < 2 THEN tag
    ELSE Join(<<arr[1]>> \o SubSeq(arr, 3, Len(arr)))

RECURSIVE childrenLoop(_, _, _)
\* the loop of childrenUntilMatch
childrenLoop(d, s, sel) ==
    IF Len(s) # 0 /\ Len(Filter(d, s, sel)) = 0
    THEN childrenLoop(d, Children(d, s), sel) ELSE s

\* a key search over all descendants instead of the first matching generation
childrenUntilMatchAnyDepth(d, s, sel) ==
    IF Len(Find(d, s, sel)) = 0 THEN s ELSE Find(d, s, sel)

childrenUntilMatch(d, s, sel) ==
    LET t == childrenLoop(d, Children(d, s), sel) IN
    IF Len(t) = 0 THEN s ELSE Filter(d, t, sel)

(***************************************************************************)
(* Destinations.  A type is a record with its kind k:                      *)
(*   "string", "int", "iface" (interface{}), "nodes" ([]*html.Node),       *)
(*   "ptr" (e), "slice" (e), "array" (n, e), "map" (key, e),               *)
(*   "struct" (name, um, fields), um saying whether *T has UnmarshalHTML   *)
(*   ("none", or "ok"/"fail" for a method that returns nil/an error).      *)
(* A value is: a string; an integer; for an interface or a pointer the     *)
(* empty list (nil) or a one-element list; a list of elements or of field  *)
(* values; for a map [made, kv] with kv a list of <<key, value>>; for a    *)
(* type with UnmarshalHTML the list of node lists it was called with.      *)
(***************************************************************************)
tString == [k |-> "string"]
tInt == [k |-> "int"]
tIface == [k |-> "iface"]
tNodes == [k |-> "nodes"]
tPtr(e) == [k |-> "ptr", e |-> e]
tSlice(e) == [k |-> "slice", e |-> e]
tArray(n, e) == [k |-> "array", n |-> n, e |-> e]
tMap(key, e) == [k |-> "map", key |-> key, e |-> e]
tStruct(name, fields) == [k |-> "struct", name |-> name, um |-> "none", fields |-> fields]
tField(name, t, tag) == [name |-> name, t |-> t, tag |-> tag]
\* type U struct{}; func (u *U) UnmarshalHTML([]*html.Node) error { return nil }
tU == [k |-> "struct", name |-> "U", um |-> "ok", fields |-> <<>>]
\* the same with an UnmarshalHTML that returns an error
tUF == [k |-> "struct", name |-> "UF", um |-> "fail", fields |-> <<>>]

RECURSIVE Zero(_)
Zero(T) ==
    IF T.k = "int" THEN 0
    ELSE IF T.k = "array" THEN [i \in 1..T.n |-> Zero(T.e)]
    ELSE IF T.k = "map" THEN [made |-> FALSE, kv |-> <<>>]
    ELSE IF T.k = "struct" /\ T.um = "none"
    THEN [i \in 1..Len(T.fields) |-> Zero(T.fields[i].t)]
    ELSE <<>>

RECURSIVE TypeDeref(_)
TypeDeref(T) == IF T.k = "ptr" THEN TypeDeref(T.e) ELSE T

\* reflect.Type.Name() # "": the predeclared and the declared types
Named(T) == T.k \in {"string", "int"} \/ (T.k = "struct" /\ T.name # "")

\* whether a pointer type has methods and implements Unmarshaler: the method
\* set of *E holds the methods declared on E and *E; **E has none
PtrUnmarshaler(T) ==
    IF T.k = "ptr" /\ T.e.k = "struct" THEN T.e.um ELSE "none"

RECURSIVE Rewrap(_, _)
\* the destination seen through depth pointers that are all allocated
Rewrap(depth, inner) == IF depth = 0 THEN inner ELSE <<Rewrap(depth - 1, inner)>>

RECURSIVE indirectLoop(_, _)
\* the loop of indirect.  No interface of the model holds a pointer to a
\* pointer, so lines 22-28 never replace v.  v.Set(reflect.New(TypeDeref(t)))
\* panics when t is a pointer to a pointer: *E is not assignable to **E.
indirectLoop(T, v) ==
    IF T.k # "ptr"
    THEN [panic |-> FALSE, um |-> "none", t |-> T, v |-> v, depth |-> 0]
    ELSE IF Len(v) = 0 /\ T.e.k = "ptr"
    THEN [panic |-> TRUE, um |-> "none", t |-> T, v |-> v, depth |-> 0]
    ELSE LET pv == IF Len(v) = 0 THEN Zero(T.e) ELSE v[1] IN
         IF PtrUnmarshaler(T) # "none"
         THEN [panic |-> FALSE, um |-> PtrUnmarshaler(T), t |-> T.e, v |-> pv,
               depth |-> 1]
         ELSE LET r == indirectLoop(T.e, pv) IN [r EXCEPT !.depth = @ + 1]

\* indirect(v): um is the Unmarshaler found ("none": nil); t and v are the
\* type and value reached, depth the pointers of the destination followed.
\* Every destination the decoder reaches is addressable.
indirect(T, v) ==
    IF T.k # "ptr" /\ Named(T)
    THEN LET r == indirectLoop(tPtr(T), <<v>>) IN [r EXCEPT !.depth = @ - 1]
    ELSE indirectLoop(T, v)

\* the destination after indirect has allocated its nil pointers
afterIndirect(ind, v) == IF ind.panic THEN v ELSE Rewrap(ind.depth, ind.v)

Digits == <<"0", "1", "2", "3", "4", "5", "6", "7", "8", "9">>
IsDigit(c) == \E i \in 1..Len(Digits) : Digits[i] = c
DigitVal(c) == (CHOOSE i \in 1..Len(Digits) : Digits[i] = c) - 1

RECURSIVE ParseDigits(_)
ParseDigits(str) ==
    IF Len(str) = 0 THEN 0
    ELSE 10 * ParseDigits(SubSeq(str, 1, Len(str) - 1)) + DigitVal(str[Len(str)])

\* strconv.ParseInt(str, 10, 64) on the strings of the model (no sign, no
\* value beyond 64 bits)
ParseInt(str) ==
    IF Len(str) > 0 /\ \A i \in 1..Len(str) : IsDigit(str[i])
    THEN [ok |-> TRUE, i |-> ParseDigits(str)]
    ELSE [ok |-> FALSE, i |-> 0]

unmarshalLiteral(str, T, v) ==
    IF T.k = "iface" THEN [ok |-> TRUE, v |-> <<str>>]
    ELSE IF T.k = "int"
    THEN LET p == ParseInt(str) IN
         IF p.ok THEN [ok |-> TRUE, v |-> p.i] ELSE [ok |-> FALSE, v |-> v]
    ELSE IF T.k = "string" THEN [ok |-> TRUE, v |-> str]
    ELSE [ok |-> TRUE, v |-> v]

(***************************************************************************)
(* The decoder.  An operation returns                                      *)
(*   st      "ok", "err" (an error is returned) or "panic",                *)
(*   v       the destination as the operation leaves it,                   *)
(*   err     the chain of errors, outermost first,                         *)
(*   ev      one event per destination reached: its type, the selection    *)
(*           and annotation it is decoded with and the handler that ran,   *)
(*   touched the nodes of every selection read or searched from,           *)
(*   scope   for every map entry, its key node and the nodes touched       *)
(*           while its value was decoded.                                  *)
(***************************************************************************)
Res(st, v, err, ev, touched, scope) ==
    [st |-> st, v |-> v, err |-> err, ev |-> ev, touched |-> touched, scope |-> scope]

Ev(T, s, tag, h) == [t |-> T, s |-> s, tag |-> tag, h |-> h]

\* &CannotUnmarshalError{Reason, V, FldOrIdx, Val}; fld and val are lists,
\* empty when the field is not set
CErr(reason, T, v, fld, val) ==
    [reason |-> reason, V |-> [t |-> T, v |-> v], fld |-> fld, val |-> val]

tInvalid == [k |-> "invalid"]
userErr == CErr("UnmarshalHTML error", tInvalid, <<>>, <<>>, <<>>)
strconvErr == CErr("strconv syntax error", tInvalid, <<>>, <<>>, <<>>)

\* r1 happened, then r2: the outcome is r2's, the history is both
Then(r1, r2) ==
    [r2 EXCEPT !.ev = r1.ev \o @, !.touched = r1.touched \cup @,
               !.scope = r1.scope \o @]

\* wrapUnmErr(u.UnmarshalHTML(s.Nodes), v) with v the zero reflect.Value
customDecode(T, s, tag, ind) ==
    Res(IF ind.um = "ok" THEN "ok" ELSE "err",
        Rewrap(ind.depth, Append(ind.v, s)),
        IF ind.um = "ok" THEN <<>>
        ELSE <<CErr("customUnmarshalError", tInvalid, <<>>, <<>>, <<>>), userErr>>,
        <<Ev(T, s, tag, "custom")>>, Range(s), <<>>)

\* the default case of unmarshalByType
unmarshalScalar(d, s, T, v, tag) ==
    LET vf == valFunc(tag) IN
    IF vf.panic THEN Res("panic", v, <<>>, <<>>, {}, <<>>)
    ELSE LET str == applyVal(d, vf.f, s)
             lit == unmarshalLiteral(str, T, v)
         IN IF lit.ok THEN Res("ok", lit.v, <<>>, <<>>, {}, <<>>)
            ELSE Res("err", v,
                     <<CErr("typeConversionError", T, v, <<>>, <<str>>), strconvErr>>,
                     <<>>, {}, <<>>)

\* reflect.Value.SetMapIndex: pointer keys are always distinct keys
SetMapIndex(T, m, nk, nv) ==
    IF T.key.k # "ptr" /\ \E i \in 1..Len(m.kv) : m.kv[i][1] = nk
    THEN [m EXCEPT !.kv = [i \in 1..Len(m.kv) |->
                              IF m.kv[i][1] = nk THEN <<nk, nv>> ELSE m.kv[i]]]
    ELSE [m EXCEPT !.kv = Append(@, <<nk, nv>>)]

RECURSIVE childrenVisited(_, _, _)
\* the nodes of the generations the loop of childrenUntilMatch looks at
childrenVisited(d, s, sel) ==
    Range(s) \cup
    (IF Len(s) # 0 /\ Len(Filter(d, s, sel)) = 0
     THEN childrenVisited(d, Children(d, s), sel) ELSE {})

RECURSIVE unmarshalByType(_, _, _, _, _)
RECURSIVE structFrom(_, _, _, _, _)
RECURSIVE arrayFrom(_, _, _, _, _, _)
RECURSIVE sliceFrom(_, _, _, _, _, _)
RECURSIVE mapFrom(_, _, _, _, _, _, _)

unmarshalStruct(d, s, T, v) == structFrom(d, s, T, v, 1)

\* a length check that rejects only a selection that is too short
unmarshalArrayTruncating(d, s, T, v, tag) ==
    IF T.n > Len(s)
    THEN Res("err", v, <<CErr("arrayLengthMismatch", T, v, <<>>, <<>>)>>, <<>>, {}, <<>>)
    ELSE arrayFrom(d, s, T, v, tag, 0)

unmarshalArray(d, s, T, v, tag) ==
    IF T.n # Len(s)
    THEN Res("err", v, <<CErr("arrayLengthMismatch", T, v, <<>>, <<>>)>>, <<>>, {}, <<>>)
    ELSE arrayFrom(d, s, T, v, tag, 0)

\* slice.Set(v) is reached only when every element decoded
unmarshalSlice(d, s, T, v, tag) ==
    LET r == sliceFrom(d, s, T, v, tag, 0) IN
    IF r.st = "ok" THEN r ELSE [r EXCEPT !.v = v]

unmarshalMap(d, s, T, v, tag) ==
    LET v0 == IF v.made THEN v ELSE [made |-> TRUE, kv |-> <<>>]
        key == selector(tag, 1)
    IN IF key.panic THEN Res("panic", v0, <<>>, <<>>, {}, <<>>)
       ELSE IF key.v = <<>>
       THEN Res("err", v0, <<CErr("missingValueSelector", T, v0, <<>>, <<>>)>>,
                <<>>, {}, <<>>)
       ELSE LET ks == childrenUntilMatch(d, s, key.v)
                r == mapFrom(d, ks, T, v0, tag, popVal(tag), 1)
                seen == childrenVisited(d, Children(d, s), key.v) \cup r.touched
            IN IF r.st = "err"
               THEN [r EXCEPT !.err = <<CErr("typeConversionError", T, r.v, <<>>, <<>>)>> \o @,
                              !.touched = seen]
               ELSE [r EXCEPT !.touched = seen]

unmarshalByType(d, s, T, v, tag) ==
    LET ind == indirect(T, v) IN
    IF ind.panic THEN Res("panic", v, <<>>, <<Ev(T, s, tag, "panic")>>, Range(s), <<>>)
    ELSE IF ind.um # "none" THEN customDecode(T, s, tag, ind)
    ELSE LET t == ind.t
             r == IF t.k = "nodes" THEN Res("ok", ind.v \o s, <<>>, <<>>, {}, <<>>)
                  ELSE IF t.k = "struct" THEN unmarshalStruct(d, s, t, ind.v)
                  ELSE IF t.k = "slice" THEN unmarshalSlice(d, s, t, ind.v, tag)
                  ELSE IF t.k = "array" THEN unmarshalArray(d, s, t, ind.v, tag)
                  ELSE IF t.k = "map" THEN unmarshalMap(d, s, t, ind.v, tag)
                  ELSE unmarshalScalar(d, s, t, ind.v, tag)
             h == IF t.k \in {"nodes", "struct", "slice", "array", "map"}
                  THEN t.k ELSE "scalar"
         IN [r EXCEPT !.v = Rewrap(ind.depth, @),
                      !.ev = <<Ev(T, s, tag, h)>> \o @,
                      !.touched = Range(s) \cup @]

\* the loop of unmarshalStruct from field i (counted from 1)
structFrom(d, s, T, v, i) ==
    IF i > Len(T.fields) THEN Res("ok", v, <<>>, <<>>, {}, <<>>)
    ELSE LET f == T.fields[i] IN
    IF f.tag = ignoreTag THEN structFrom(d, s, T, v, i + 1)
    ELSE LET ind == indirect(f.t, v[i])
             v1 == IF f.tag = <<>> THEN [v EXCEPT ![i] = afterIndirect(ind, @)] ELSE v
         IN
    IF f.tag = <<>> /\ ind.panic
    THEN Res("panic", v, <<>>, <<Ev(f.t, s, f.tag, "panic")>>, {}, <<>>)
    ELSE IF f.tag = <<>> /\ ind.um = "none" THEN structFrom(d, s, T, v1, i + 1)
    ELSE LET pre == preprocess(d, f.tag, s)
             sl == IF f.tag # <<>> THEN selector(f.tag, 0) ELSE [panic |-> FALSE, v |-> <<>>]
         IN
    IF pre.panic THEN Res("panic", v1, <<>>, <<>>, {}, <<>>)
    ELSE IF sl.panic THEN Res("panic", v1, <<>>, <<>>, Range(pre.s), <<>>)
    ELSE LET sel == IF f.tag # <<>> THEN Find(d, pre.s, sl.v) ELSE pre.s
             r0 == unmarshalByType(d, sel, f.t, v1[i], f.tag)
             r == [r0 EXCEPT !.touched = Range(pre.s) \cup @]
             v2 == [v1 EXCEPT ![i] = r.v]
         IN IF r.st = "ok" THEN Then(r, structFrom(d, s, T, v2, i + 1))
            ELSE IF r.st = "panic" THEN [r EXCEPT !.v = v2]
            ELSE [r EXCEPT !.v = v2,
                           !.err = <<CErr("typeConversionError", T, v2, <<f.name>>, <<>>)>> \o @]

\* the loop of unmarshalArray from element i (counted from 0)
arrayFrom(d, s, T, v, tag, i) ==
    IF ~(i < T.n) THEN Res("ok", v, <<>>, <<>>, {}, <<>>)
    ELSE LET r == unmarshalByType(d, Eq(s, i), T.e, v[i + 1], tag)
             v2 == [v EXCEPT ![i + 1] = r.v]
         IN IF r.st = "ok" THEN Then(r, arrayFrom(d, s, T, v2, tag, i + 1))
            ELSE IF r.st = "panic" THEN [r EXCEPT !.v = v2]
            ELSE [r EXCEPT !.v = v2,
                           !.err = <<CErr("typeConversionError", T, v2, <<i>>, <<>>)>> \o @]

\* the loop of unmarshalSlice from node i (counted from 0); v is the local
\* slice value appended to.  reflect.Append panics when the element type is
\* a pointer to a pointer: newV is a *E, not a **E.
sliceFrom(d, s, T, v, tag, i) ==
    IF ~(i < Len(s)) THEN Res("ok", v, <<>>, <<>>, {}, <<>>)
    ELSE LET eT == TypeDeref(T.e)
             r == unmarshalByType(d, Eq(s, i), tPtr(eT), <<Zero(eT)>>, tag)
         IN IF r.st = "panic" THEN [r EXCEPT !.v = v]
            ELSE IF r.st = "err"
            THEN [r EXCEPT !.v = v,
                           !.err = <<CErr("typeConversionError", T, v, <<i>>, <<>>)>> \o @]
            ELSE IF T.e.k = "ptr" /\ T.e.e.k = "ptr" THEN [r EXCEPT !.st = "panic", !.v = v]
            ELSE LET newV == IF T.e.k # "ptr" THEN r.v[1] ELSE r.v IN
                 Then(r, sliceFrom(d, s, T, Append(v, newV), tag, i + 1))

\* a callback handed the whole key generation instead of its own node
keyNodeWholeGeneration(ks, i) == ks

\* the selection of one node EachWithBreak hands to its callback
keyNode(ks, i) == <<ks[i]>>

\* the callback of EachWithBreak in unmarshalMap, from key node i (counted
\* from 1).  SetMapIndex panics when the key or element type is a pointer to
\* a pointer.
mapFrom(d, ks, T, v, tag, valTag, i) ==
    IF i > Len(ks) THEN Res("ok", v, <<>>, <<>>, {}, <<>>)
    ELSE LET subS == keyNode(ks, i)
             keyT == TypeDeref(T.key)
             eleT == TypeDeref(T.e)
             rk == unmarshalByType(d, subS, tPtr(keyT), <<Zero(keyT)>>, tag)
             rv == unmarshalByType(d, subS, tPtr(eleT), <<Zero(eleT)>>, valTag)
             vf == valFunc(valTag)
             sc == <<[k |-> ks[i], t |-> T.e, touched |-> rv.touched]>>
         IN IF rk.st = "panic" THEN [rk EXCEPT !.v = v]
            ELSE IF rk.st = "err"
            THEN IF vf.panic THEN [rk EXCEPT !.st = "panic", !.v = v, !.err = <<>>]
                 ELSE [rk EXCEPT !.v = v,
                                 !.err = <<CErr("mapKeyUnmarshalError", T, v, <<rk.v>>,
                                                <<applyVal(d, vf.f, subS)>>)>> \o @]
            ELSE IF rv.st # "ok" THEN Then(rk, [rv EXCEPT !.v = v, !.scope = @ \o sc])
            ELSE IF \/ T.key.k = "ptr" /\ T.key.e.k = "ptr"
                    \/ T.e.k = "ptr" /\ T.e.e.k = "ptr"
            THEN Then(rk, [rv EXCEPT !.st = "panic", !.v = v, !.scope = @ \o sc])
            ELSE LET newK == IF T.key.k # "ptr" THEN rk.v[1] ELSE rk.v
                     newV == IF T.e.k # "ptr" THEN rv.v[1] ELSE rv.v
                 IN Then(rk, Then([rv EXCEPT !.scope = @ \o sc],
                        mapFrom(d, ks, T, SetMapIndex(T, v, newK, newV), tag, valTag, i + 1)))

\* UnmarshalSelection(s, iface) for iface of type T and value v
UnmarshalSelection(d, s, T, v) ==
    IF T.k # "ptr"
    THEN Res("err", v, <<CErr("nonPointer", T, v, <<>>, <<>>)>>, <<>>, {}, <<>>)
    ELSE IF Len(v) = 0
    THEN Res("err", v, <<CErr("nilValue", T, v, <<>>, <<>>)>>, <<>>, {}, <<>>)
    ELSE LET ind == indirect(T, v) IN
         IF ind.panic THEN Res("panic", v, <<>>, <<Ev(T, s, <<>>, "panic")>>, Range(s), <<>>)
         ELSE IF ind.um # "none" THEN customDecode(T, s, <<>>, ind)
         ELSE LET r == unmarshalByType(d, s, ind.t, ind.v, <<>>) IN
              [r EXCEPT !.v = Rewrap(ind.depth, @)]

(***************************************************************************)
(* The inputs of the model.                                                *)
(***************************************************************************)
Tg(arr) == Join(arr)

Tags ==
    {<<>>, sA, sK, sLi, sD, dParent, ignoreTag,
     Tg(<<sA, kText>>), Tg(<<sA, kHtml>>), Tg(<<sA, aHref>>), Tg(<<sD, kHtml>>),
     Tg(<<sA, <<>> >>), Tg(<<sA, <<"[">> >>), Tg(<<sA, sW>>), Tg(<<sA, <<"[", "h">> >>),
     Tg(<<(<<>>), aBang>>), Tg(<<(<<>>), aV>>),
     Tg(<<sD, aK>>), Tg(<<sD, aK, aV>>), Tg(<<sD, sK, kText>>), Tg(<<sD, aK, aV, aBang>>),
     Tg(<<sLi, aK, aV>>), Tg(<<sLi, sK, aK>>), Tg(<<sR, aK>>),
     Tg(<<dParent, sV>>), Tg(<<dParent, sA, aHref>>), Tg(<<dParent, sD, aK, aV>>),
     Tg(<<dBogus, sA>>), Tg(<<dLength, dChildren, sK>>), Tg(<<dParent, dBogus>>)}

\* struct{ F string `goquery:",[bang]"` }, the struct S of the package doc
tS == tStruct("S", <<tField("F", tString, Tg(<<(<<>>), aBang>>))>>)
\* struct{ F string `goquery:"v"` }
tSV == tStruct("SV", <<tField("F", tString, sV)>>)
\* struct{ F string `goquery:"!Parent,v"` }
tSP == tStruct("SP", <<tField("F", tString, Tg(<<dParent, sV>>))>>)
\* struct{ F string `goquery:"!Siblings,v"` }
tSS == tStruct("SS", <<tField("F", tString, Tg(<<dSiblings, sV>>))>>)
\* struct{ F string `goquery:"!Nope,v"`; G []*html.Node `goquery:"!Children,v"` }
tSC == tStruct("SC", <<tField("F", tString, Tg(<<dBogus, sV>>)),
                       tField("G", tNodes, Tg(<<dChildren, sV>>))>>)
\* struct{ A string; B *string; C []string; D map[string]string; E interface{} }
tPlain == tStruct("Plain", <<tField("A", tString, <<>>), tField("B", tPtr(tString), <<>>),
                             tField("C", tSlice(tString), <<>>),
                             tField("D", tMap(tString, tString), <<>>),
                             tField("E", tIface, <<>>)>>)

ArrayTypes(e) == [n \in 1..(MaxArr + 1) |-> tArray(n - 1, e)]

MapTypes ==
    <<tMap(tString, tString), tMap(tString, tInt), tMap(tInt, tString),
      tMap(tString, tSlice(tString)), tMap(tString, tArray(1, tString)),
      tMap(tString, tMap(tString, tString)), tMap(tString, tNodes),
      tMap(tString, tS), tMap(tString, tSV), tMap(tString, tSP), tMap(tString, tSS),
      tMap(tString, tSC),
      tMap(tString, tU), tMap(tU, tString), tMap(tString, tPtr(tString)),
      tMap(tString, tPtr(tPtr(tString)))>>

FieldTypes ==
    <<tString, tInt, tIface, tNodes, tU, tUF, tPtr(tU), tPtr(tPtr(tU)), tPtr(tUF),
      tPtr(tString), tPtr(tPtr(tString)), tSlice(tString), tSlice(tInt), tSlice(tU),
      tSlice(tPtr(tU)), tSlice(tPtr(tPtr(tU))), tSlice(tMap(tString, tSlice(tString))),
      tS, tSV, tPlain, tPtr(tPlain)>>
    \o ArrayTypes(tString) \o ArrayTypes(tU) \o MapTypes

RECURSIVE Populated(_)
\* a value of type T none of whose parts is nil or zero
Populated(T) ==
    IF T.k = "string" THEN <<"o">>
    ELSE IF T.k = "int" THEN 7
    ELSE IF T.k = "iface" THEN << <<"o">> >>
    ELSE IF T.k = "nodes" THEN <<1>>
    ELSE IF T.k = "ptr" THEN <<Populated(T.e)>>
    ELSE IF T.k = "slice" THEN <<Populated(T.e)>>
    ELSE IF T.k = "array" THEN [i \in 1..T.n |-> Populated(T.e)]
    ELSE IF T.k = "map" THEN [made |-> TRUE, kv |-> <<>>]
    ELSE IF T.um = "none" THEN [i \in 1..Len(T.fields) |-> Populated(T.fields[i].t)]
    ELSE << <<1>> >>

\* the struct types all of whose fields have an empty annotation
Unannotated ==
    [i \in 1..Len(FieldTypes) |-> tStruct("R", <<tField("F", FieldTypes[i], <<>>)>>)]
    \o <<tPlain>>

Selectors == {sA, sK, sV, sLi, sD, sW, aK, aV, aBang, kText, <<>>, <<"[">>}

AllA == Find(DocList, <<1>>, sA)

\* the selections operations are applied to, per document
SelsOf(d) ==
    <<(<<>>), <<2, 3>>, <<3, 2>>, <<3, 8>>>>
    \o [n \in 1..Len(d.parent) |-> <<n>>]
    \o [n \in 1..Len(d.parent) |-> Children(d, <<n>>)]
    \o <<Find(d, <<1>>, sK), Find(d, <<1>>, sV), Find(d, <<1>>, sLi), Find(d, <<1>>, aK)>>

Sels == <<SelsOf(DocMap), SelsOf(DocList)>>

Sel(di, si) == Sels[di][((si - 1) % Len(Sels[di])) + 1]

Firsts(s, m) == SubSeq(s, 1, IF m < Len(s) THEN m ELSE Len(s))

ElemTypes == <<tString, tInt, tIface>>

Sample(T, pop) == IF pop THEN Populated(T) ELSE Zero(T)

\* type R struct{ F ft `goquery:"tag"` }
tR(ft, tag) == tStruct("R", <<tField("F", ft, tag)>>)

(***************************************************************************)
(* The sequential specification: a caller applies one operation to inputs  *)
(* of its choice and then takes the result.                                *)
(***************************************************************************)
\* An operation is applied in the idle state; its inputs and its result are
\* what the state records.
Call(name, args, result) ==
    /\ op' = name
    /\ in' = args
    /\ out' = result
    /\ UNCHANGED concVars

CallSelector(args, result) ==
    /\ op = "idle"
    /\ Call("selector", args, result)

DoSelector ==
    \E tag \in Tags, which \in 0..MaxWhich :
        CallSelector([tag |-> tag, which |-> which], selector(tag, which))

CallPopVal(args, result) ==
    /\ op = "idle"
    /\ Call("popVal", args, result)

DoPopVal ==
    \E tag \in Tags : CallPopVal([tag |-> tag], popVal(tag))

CallValFunc(args, result) ==
    /\ op = "idle"
    /\ Call("valFunc", args, result)

DoValFunc ==
    \E tag \in Tags : CallValFunc([tag |-> tag], valFunc(tag))

CallPreprocess(args, result) ==
    /\ op = "idle"
    /\ Call("preprocess", args, result)

DoPreprocess ==
    \E di \in 1..Len(Docs), tag \in Tags, si \in 1..MaxSels :
        CallPreprocess([doc |-> di, tag |-> tag, s |-> Sel(di, si)],
                       preprocess(Docs[di], tag, Sel(di, si)))

CallChildrenUntilMatch(args, result) ==
    /\ op = "idle"
    /\ Call("childrenUntilMatch", args, result)

DoChildrenUntilMatch ==
    \E di \in 1..Len(Docs), sel \in Selectors, si \in 1..MaxSels :
        CallChildrenUntilMatch([doc |-> di, s |-> Sel(di, si), sel |-> sel],
                               childrenUntilMatch(Docs[di], Sel(di, si), sel))

CallUnmarshalArray(args, result) ==
    /\ op = "idle"
    /\ Call("unmarshalArray", args, result)

\* an array whose elements hold earlier values, and a selection of m nodes
DoUnmarshalArray ==
    \E tag \in Tags, n \in 0..MaxArr, ei \in 1..Len(ElemTypes), m \in 0..(MaxArr + 2) :
        CallUnmarshalArray(
            [doc |-> 2, s |-> Firsts(AllA, m), T |-> tArray(n, ElemTypes[ei]),
             v |-> Populated(tArray(n, ElemTypes[ei])), tag |-> tag],
            unmarshalArray(DocList, Firsts(AllA, m), tArray(n, ElemTypes[ei]),
                           Populated(tArray(n, ElemTypes[ei])), tag))

CallUnmarshalMap(args, result) ==
    /\ op = "idle"
    /\ Call("unmarshalMap", args, result)

DoUnmarshalMap ==
    \E di \in 1..Len(Docs), tag \in Tags, ti \in 1..Len(MapTypes), n \in 1..2 :
        CallUnmarshalMap(
            [doc |-> di, s |-> <<n>>, T |-> MapTypes[ti], v |-> Zero(MapTypes[ti]),
             tag |-> tag],
            unmarshalMap(Docs[di], <<n>>, MapTypes[ti], Zero(MapTypes[ti]), tag))

CallUnmarshalStruct(args, result) ==
    /\ op = "idle"
    /\ Call("unmarshalStruct", args, result)

\* a struct without annotations, its fields nil/zero or all populated
DoUnmarshalStruct ==
    \E di \in 1..Len(Docs), ti \in 1..Len(Unannotated), pop \in BOOLEAN, n \in 1..2 :
        CallUnmarshalStruct(
            [doc |-> di, s |-> <<n>>, T |-> Unannotated[ti],
             v |-> Sample(Unannotated[ti], pop)],
            unmarshalStruct(Docs[di], <<n>>, Unannotated[ti],
                            Sample(Unannotated[ti], pop)))

CallUnmarshalSelection(args, result) ==
    /\ op = "idle"
    /\ Call("UnmarshalSelection", args, result)

\* UnmarshalSelection(doc.Selection, &R{}) for type R struct{ F ft `goquery:"tag"` }
DoUnmarshalSelection ==
    \E di \in 1..Len(Docs), tag \in Tags, ti \in 1..Len(FieldTypes) :
        CallUnmarshalSelection(
            [doc |-> di, s |-> <<1>>, T |-> tPtr(tR(FieldTypes[ti], tag)),
             v |-> <<Zero(tR(FieldTypes[ti], tag))>>, tag |-> tag],
            UnmarshalSelection(Docs[di], <<1>>, tPtr(tR(FieldTypes[ti], tag)),
                               <<Zero(tR(FieldTypes[ti], tag))>>))

CallUnmarshalRoot(args, result) ==
    /\ op = "idle"
    /\ Call("UnmarshalRoot", args, result)

\* UnmarshalSelection(s, iface) for an iface that is no pointer to such a struct
DoUnmarshalRoot ==
    \E di \in 1..Len(Docs), ti \in 1..Len(FieldTypes), pop \in BOOLEAN, n \in 1..2 :
        CallUnmarshalRoot(
            [doc |-> di, s |-> <<n>>, T |-> FieldTypes[ti],
             v |-> Sample(FieldTypes[ti], pop), tag |-> <<>>],
            UnmarshalSelection(Docs[di], <<n>>, FieldTypes[ti], Sample(FieldTypes[ti], pop)))

\* the caller takes the result
Return ==
    /\ op # "idle"
    /\ op' = "idle"
    /\ in' = <<>>
    /\ out' = <<>>
    /\ UNCHANGED concVars

InitConc ==
    /\ vfMut = 0
    /\ vfCache = <<>>
    /\ pc = [p \in 1..NumProcs |-> "idle"]
    /\ ptag = [p \in 1..NumProcs |-> <<>>]
    /\ pfn = [p \in 1..NumProcs |-> <<>>]
    /\ nclo = 0
    /\ ncalls = [p \in 1..NumProcs |-> 0]

Init ==
    /\ op = "idle"
    /\ in = <<>>
    /\ out = <<>>
    /\ InitConc

Next ==
    \/ DoSelector
    \/ DoPopVal
    \/ DoValFunc
    \/ DoPreprocess
    \/ DoChildrenUntilMatch
    \/ DoUnmarshalArray
    \/ DoUnmarshalMap
    \/ DoUnmarshalStruct
    \/ DoUnmarshalSelection
    \/ DoUnmarshalRoot
    \/ Return

Spec == Init /\ [][Next]_vars

(***************************************************************************)
(* The concurrent specification: NumProcs goroutines, each inside a decode *)
(* of its own document, call valFunc at most MaxCalls times.  vfMut is 0   *)
(* when unlocked and else the goroutine holding it; vfCache maps a tag to  *)
(* the function stored for it.  A function value is what it computes (f)   *)
(* and which closure it is (id: 0 for the package-level textVal and        *)
(* htmlVal, a fresh number for every call of attrFunc).                    *)
(***************************************************************************)
ConcTags == {sA, Tg(<<sA, aHref>>), Tg(<<sA, kHtml>>), Tg(<<sA, <<>> >>)}

Procs == 1..NumProcs

\* a Lock that does not wait
MutexNeverWaits == TRUE

\* sync.Mutex.Lock returns only when the mutex is unlocked
MutexFree == vfMut = 0

\* a goroutine reaches a call of tag.valFunc()
Begin(p) ==
    /\ pc[p] = "idle"
    /\ ncalls[p] < MaxCalls
    /\ \E tag \in ConcTags : ptag' = [ptag EXCEPT ![p] = tag]
    /\ pc' = [pc EXCEPT ![p] = "lock"]
    /\ ncalls' = [ncalls EXCEPT ![p] = @ + 1]
    /\ pfn' = [pfn EXCEPT ![p] = <<>>]
    /\ UNCHANGED <<vfMut, vfCache, nclo, seqVars>>

\* vfMut.Lock(); defer vfMut.Unlock()
Lock(p) ==
    /\ pc[p] = "lock"
    /\ MutexFree
    /\ vfMut' = p
    /\ pc' = [pc EXCEPT ![p] = "lookup"]
    /\ UNCHANGED <<vfCache, ptag, pfn, nclo, ncalls, seqVars>>

\* if fn := vfCache[tag]; fn != nil { return fn }
Lookup(p) ==
    /\ pc[p] = "lookup"
    /\ IF ptag[p] \in DOMAIN vfCache
       THEN /\ pfn' = [pfn EXCEPT ![p] = <<[panic |-> FALSE, fn |-> vfCache[ptag[p]]]>>]
            /\ pc' = [pc EXCEPT ![p] = "unlock"]
       ELSE /\ pfn' = pfn
            /\ pc' = [pc EXCEPT ![p] = "resolve"]
    /\ UNCHANGED <<vfMut, vfCache, ptag, nclo, ncalls, seqVars>>

\* the resolution and vfCache[tag] = f; a panic leaves the cache as it is
Resolve(p) ==
    /\ pc[p] = "resolve"
    /\ LET r == valFunc(ptag[p])
           id == IF r.f.kind = "attr" THEN nclo + 1 ELSE 0
           fn == [f |-> r.f, id |-> id]
       IN IF r.panic
          THEN /\ pfn' = [pfn EXCEPT ![p] = <<[panic |-> TRUE, fn |-> fn]>>]
               /\ UNCHANGED <<vfCache, nclo>>
          ELSE /\ pfn' = [pfn EXCEPT ![p] = <<[panic |-> FALSE, fn |-> fn]>>]
               /\ nclo' = IF r.f.kind = "attr" THEN nclo + 1 ELSE nclo
               /\ vfCache' = [t \in DOMAIN vfCache \cup {ptag[p]} |->
                                 IF t = ptag[p] THEN fn ELSE vfCache[t]]
    /\ pc' = [pc EXCEPT ![p] = "unlock"]
    /\ UNCHANGED <<vfMut, ptag, ncalls, seqVars>>

\* the deferred vfMut.Unlock(), on a return and on a panic
Unlock(p) ==
    /\ pc[p] = "unlock"
    /\ vfMut' = 0
    /\ pc' = [pc EXCEPT ![p] = "idle"]
    /\ UNCHANGED <<vfCache, ptag, pfn, nclo, ncalls, seqVars>>

NextConc ==
    \E p \in Procs : Begin(p) \/ Lock(p) \/ Lookup(p) \/ Resolve(p) \/ Unlock(p)

SpecConc == Init /\ [][NextConc]_vars

(***************************************************************************)
(* The properties.  The annotation grammar they speak of: an annotation    *)
(* with k leading '!' tokens has its slot i at token k+i; an annotation of *)
(* one token has no directive.                                             *)
(***************************************************************************)
DecodeOps ==
    {"unmarshalArray", "unmarshalMap", "unmarshalStruct", "UnmarshalSelection",
     "UnmarshalRoot"}

IsDirective(tok) == Len(tok) > 0 /\ tok[1] = prePfx

RECURSIVE LeadingDirectives(_)
LeadingDirectives(arr) ==
    IF Len(arr) > 0 /\ IsDirective(arr[1]) THEN 1 + LeadingDirectives(Tail(arr)) ELSE 0

DirectiveCount(tag) ==
    IF Len(Split(tag)) = 1 THEN 0 ELSE LeadingDirectives(Split(tag))

Directives(tag) == SubSeq(Split(tag), 1, DirectiveCount(tag))
Slots(tag) == SubSeq(Split(tag), DirectiveCount(tag) + 1, Len(Split(tag)))
HasSlot(tag, i) == i + 1 <= Len(Slots(tag))
Slot(tag, i) == IF HasSlot(tag, i) THEN Slots(tag)[i + 1] ELSE <<>>

\* the value-function a value selector stands for
SelectorVal(tok) ==
    IF Len(tok) >= 2 /\ tok[1] = "[" /\ tok[Len(tok)] = "]"
    THEN attrFunc(SubSeq(tok, 2, Len(tok) - 1))
    ELSE IF tok = kHtml THEN htmlVal
    ELSE textVal

\* the value-function of an annotation: that of its slot 1, text without one
ExpectedVal(tag) == IF HasSlot(tag, 1) THEN SelectorVal(Slot(tag, 1)) ELSE textVal

RECURSIVE Implements(_)
\* the type implements Unmarshaler at some depth of pointer indirection
Implements(T) ==
    IF T.k = "ptr" THEN Implements(T.e) ELSE T.k = "struct" /\ T.um # "none"

\* C1: every destination reached whose type implements Unmarshaler at some
\* pointer depth is handled by UnmarshalHTML, called once with the nodes of
\* the current selection, its result returned (a failure wrapped as a
\* custom-decoder error); no built-in handler runs for it
C1_CustomDecoderPrecedence ==
    /\ op \in DecodeOps =>
           \A i \in 1..Len(out.ev) :
               Implements(out.ev[i].t) => out.ev[i].h = "custom"
    /\ (op = "UnmarshalRoot" /\ in.T.k = "ptr" /\ Len(in.v) > 0 /\ Implements(in.T)) =>
           /\ Len(out.ev) = 1
           /\ out.ev[1].h = "custom"
           /\ out.ev[1].s = in.s
           /\ out.st # "panic"
           /\ out.st = "err" => out.err[1].reason = "customUnmarshalError"

\* the annotation applies a directive whose method leaves the subtrees of
\* the selection it is applied to
HasEscapingDirective(tag) ==
    \E i \in 1..Len(Directives(tag)) : Directives(tag)[i] \in {dParent, dSiblings}

RECURSIVE StaysBelow(_)
\* no annotation of a struct field nested in the type applies such a directive
StaysBelow(T) ==
    IF T.k \in {"ptr", "slice", "array"} THEN StaysBelow(T.e)
    ELSE IF T.k = "map" THEN StaysBelow(T.key) /\ StaysBelow(T.e)
    ELSE IF T.k = "struct"
    THEN \A i \in 1..Len(T.fields) :
             ~HasEscapingDirective(T.fields[i].tag) /\ StaysBelow(T.fields[i].t)
    ELSE TRUE

PoppedExpected(tag) ==
    IF Len(Split(tag)) < 2 \/ ~HasSlot(tag, 1) THEN tag
    ELSE Join(Directives(tag) \o <<Slot(tag, 0)>> \o SubSeq(Slots(tag), 3, Len(Slots(tag))))

\* the value selector i of the annotation applied to key node k
SlotValue(d, tag, i, k) ==
    applyVal(d, IF HasSlot(tag, i) THEN SelectorVal(Slot(tag, i)) ELSE textVal, <<k>>)

\* C3: popVal removes exactly slot 1 and keeps slot 0 and the order of the
\* later slots; a map[string][]string decoded with an annotation takes every
\* key from its key node by slot 1 and every string of the entry's slice by
\* slot 2
C3_SelectorConsumption ==
    /\ (op = "popVal" => out = PoppedExpected(in.tag))
    /\ (op = "unmarshalMap" /\ in.T = tMap(tString, tSlice(tString)) /\ out.st = "ok") =>
           /\ \A i \in 1..Len(out.scope) :
                  \E j \in 1..Len(out.v.kv) :
                      out.v.kv[j][1] = SlotValue(Docs[in.doc], in.tag, 1, out.scope[i].k)
           /\ \A j \in 1..Len(out.v.kv) :
                  \E i \in 1..Len(out.scope) :
                      out.v.kv[j] =
                          <<SlotValue(Docs[in.doc], in.tag, 1, out.scope[i].k),
                            <<SlotValue(Docs[in.doc], in.tag, 2, out.scope[i].k)>> >>

\* every element decode with the annotation succeeds, whatever the node
ElementsCannotFail(d, e, tag) ==
    \A n \in 1..Len(d.parent) :
        unmarshalByType(d, <<n>>, e, Populated(e), tag).st = "ok"

\* C4: an array of length N whose element decodes cannot fail, decoded from
\* a selection of M nodes: when M = N the decode succeeds and element i is
\* decoded from node i alone with the same annotation; when M # N the
\* array-length-mismatch error carrying the array is returned and no element
\* is written or decoded
C4_ArrayLengthRule ==
    (op = "unmarshalArray" /\ ElementsCannotFail(Docs[in.doc], in.T.e, in.tag)) =>
        IF Len(in.s) = in.T.n
        THEN /\ out.st = "ok"
             /\ Len(out.ev) = in.T.n
             /\ \A i \in 1..in.T.n :
                    /\ out.ev[i] = Ev(in.T.e, <<in.s[i]>>, in.tag, "scalar")
                    /\ out.v[i] = unmarshalByType(Docs[in.doc], <<in.s[i]>>, in.T.e,
                                                  in.v[i], in.tag).v
        ELSE /\ out.st = "err"
             /\ out.err = <<CErr("arrayLengthMismatch", in.T, in.v, <<>>, <<>>)>>
             /\ out.v = in.v
             /\ out.ev = <<>>

\* an array of two strings offered three nodes: the mismatch error, the two
\* earlier elements still in place
C4_Witness ==
    /\ op = "unmarshalArray"
    /\ in.T = tArray(2, tString)
    /\ Len(in.s) = 3
    /\ in.tag = Tg(<<sA, aHref>>)
    /\ out.st = "err"
    /\ out.err[1].reason = "arrayLengthMismatch"
    /\ out.v = <<(<<"o">>), <<"o">> >>

\* C5: unmarshalStruct on a struct all of whose fields have an empty
\* annotation and no custom decoder returns no error and leaves every field
\* as it was, a nil pointer still nil
C5_UnannotatedNoOp ==
    (/\ op = "unmarshalStruct"
     /\ \A i \in 1..Len(in.T.fields) :
            in.T.fields[i].tag = <<>> /\ ~Implements(in.T.fields[i].t)) =>
        /\ out.st = "ok"
        /\ out.v = in.v

\* C6: valFunc never fails, and the function it returns is that of slot 1:
\* text when the slot is absent, the attribute named between brackets, html
\* for "html", and text for every other token, the empty one and a lone "["
\* included
C6_ValFuncTotal ==
    op = "valFunc" =>
        /\ ~out.panic
        /\ out.f = ExpectedVal(in.tag)

\* C7: unmarshalMap with an annotation whose slot 1 is absent or empty
\* returns the missing-value-selector error carrying the map and searches
\* and decodes nothing
C7_MapWithoutKeySelector ==
    (op = "unmarshalMap" /\ Slot(in.tag, 1) = <<>>) =>
        /\ out.st = "err"
        /\ Len(out.err) = 1
        /\ out.err[1].reason = "missingValueSelector"
        /\ out.err[1].V.t = in.T
        /\ out.ev = <<>>
        /\ out.touched = {}
        /\ out.scope = <<>>

\* every cache access and the exit of valFunc respect vfMut, and a call
\* obtains what an uncached resolution of its annotation gives
CacheGuarded ==
    \A p \in Procs :
        /\ pc[p] \in {"lookup", "resolve", "unlock"} => vfMut = p
        /\ pc[p] \in {"idle", "lock"} => vfMut # p
        /\ pfn[p] # <<>> =>
               /\ pfn[p][1].panic = valFunc(ptag[p]).panic
               /\ pfn[p][1].fn.f = valFunc(ptag[p]).f

\* a step keeps every cache entry as it is
CacheStable ==
    \A t \in DOMAIN vfCache : t \in DOMAIN vfCache' /\ vfCache'[t] = vfCache[t]

\* C8: in every interleaving of concurrent valFunc calls, vfCache is read
\* and written only by the goroutine holding vfMut, the mutex is released on
\* every exit path, an inserted cache entry is never replaced, and each call
\* obtains the value-function an uncached resolution would return
C8_ConcurrentEquivalence == [](CacheGuarded) /\ [][CacheStable]_vars

\* two goroutines asked for the same attribute annotation and both hold the
\* one closure the first of them cached, while neither holds the mutex
C8_Witness ==
    \E p, q \in Procs :
        /\ p # q
        /\ pc[p] = "idle" /\ pc[q] = "idle"
        /\ ptag[p] = Tg(<<sA, aHref>>) /\ ptag[q] = ptag[p]
        /\ pfn[p] # <<>> /\ pfn[q] # <<>>
        /\ pfn[p][1].fn = pfn[q][1].fn
        /\ pfn[p][1].fn.id = 1
        /\ vfMut = 0

\* the token is a value selector valFunc resolves
Resolvable(tok) == tok # <<>> /\ (tok[1] = "[" => Len(tok) >= 3 /\ tok[Len(tok)] = "]")

\* C9: a struct field annotated with an empty slot 0 and a value selector,
\* as the field of struct S in map[string]S, is decoded from the record's own
\* selection (the key node) by its value selector, the decode completes, and
\* the unused value selectors of the map's annotation play no part
C9_EmptySlotZero ==
    (/\ op = "unmarshalMap"
     /\ in.T = tMap(tString, tS)
     /\ DirectiveCount(in.tag) = 0
     /\ Resolvable(Slot(in.tag, 1))) =>
        /\ out.st = "ok"
        /\ \A i \in 1..Len(out.scope) :
               \E j \in 1..Len(out.v.kv) :
                   out.v.kv[j][2] =
                       <<Attr(Docs[in.doc], <<out.scope[i].k>>, SubSeq(aBang, 2, Len(aBang) - 1))>>

RECURSIVE Ancestor(_, _, _)
\* the g-th ancestor of node n, 0 when there is none
Ancestor(d, n, g) ==
    IF n = 0 \/ g = 0 THEN n ELSE Ancestor(d, d.parent[n], g - 1)

\* generation g below the selection: the nodes whose g-th ancestor is in it
Generation(d, s, g) ==
    {n \in 1..Len(d.parent) : Ancestor(d, n, g) \in Range(s)}

\* the generations below the selection that hold a node matching sel
MatchingGenerations(d, s, sel) ==
    {g \in 1..Len(d.parent) : \E n \in Generation(d, s, g) : Matches(d, n, sel)}

\* C10: childrenUntilMatch returns exactly the nodes matching the key
\* selector in the shallowest generation below s that holds a match, each
\* once and none from a deeper generation; without any match it returns s
C10_KeyGenerationSearch ==
    op = "childrenUntilMatch" =>
        LET d == Docs[in.doc]
            gens == MatchingGenerations(d, in.s, in.sel)
        IN IF gens = {} THEN out = in.s
           ELSE LET g == CHOOSE x \in gens : \A y \in gens : x <= y IN
                /\ Range(out) = {n \in Generation(d, in.s, g) : Matches(d, n, in.sel)}
                /\ Cardinality(Range(out)) = Len(out)

\* from the root of the map document the children hold no k, the
\* grandchildren hold two, and the k three levels below them is left out
C10_Witness ==
    /\ op = "childrenUntilMatch"
    /\ in.doc = 1
    /\ in.s = <<1>>
    /\ in.sel = sK
    /\ out = <<3, 6>>
    /\ Matches(DocMap, 8, sK)
    /\ IsDesc(DocMap, 8, 1)

\* C10 also: a search that finds no generation with a match hands back the
\* nodes it started from
C10_FallbackWitness ==
    /\ op = "childrenUntilMatch"
    /\ in.doc = 2
    /\ in.s = <<2, 3>>
    /\ in.sel = sW
    /\ out = in.s

RECURSIVE ApplyDirectives(_, _, _)
\* the selection after every directive of the list is applied in order, one
\* that names no method or returns no selection leaving it as it is
ApplyDirectives(d, dirs, s) ==
    IF Len(dirs) = 0 THEN s
    ELSE ApplyDirectives(d, Tail(dirs), MethodByName(d, Tail(dirs[1]), s).s)

\* C11: with k leading directive tokens slot i is token k+i for every
\* operation: selector(i) returns slot i or the empty string, valFunc
\* resolves from slot 1, popVal removes slot 1 and keeps the directives and
\* slot 0, preprocess applies exactly the directives, a sole '!'-prefixed
\* token is a selector, and none of the operations fails
C11_DirectivesKeepSlots ==
    /\ (op = "selector" => ~out.panic /\ out.v = Slot(in.tag, in.which))
    /\ (op = "valFunc" => ~out.panic /\ out.f = ExpectedVal(in.tag))
    /\ (op = "popVal" => out = PoppedExpected(in.tag))
    /\ (op = "preprocess" =>
            /\ ~out.panic
            /\ out.s = ApplyDirectives(Docs[in.doc], Directives(in.tag), in.s))
====
